---- MODULE Spec2Model ----
(***************************************************************************)
(* Post-build validation of an installed package                          *)
(* (toolsrc/src/post_build_lint.cpp).                                     *)
(*                                                                         *)
(* Five state machines share the module:                                   *)
(*   SpecArch  get_actual_architecture over every 16-bit machine type      *)
(*   SpecCrt   check_crt_linkage_of_libs, one loop iteration per step      *)
(*   Spec      perform_all_checks, one check call per step                 *)
(*   SpecTree  perform_all_checks over installation trees, the checks that *)
(*             read the tree computed from it                              *)
(*   SpecBin   check_lib_architecture and check_dll_architecture, one loop *)
(*             iteration per step                                          *)
(* Text is a sequence of one-character strings, so that searching and      *)
(* number formatting are computed character by character.                  *)
(***************************************************************************)
EXTENDS Integers, Sequences, FiniteSets, TLC

VARIABLES
    \* get_actual_architecture
    machine_type,                   \* the argument
    actual_arch,                    \* the returned string, <<>> before the call
    \* check_crt_linkage_of_libs
    crt_pc,                         \* "loop", "returned", "halted", "idle"
    expected_build_type,            \* the argument expected_build_type
    libs,                           \* the argument libs (paths are numbers)
    lib_i,                          \* index in libs of the next library of the loop
    crt_output,                     \* ec_data.output of the last dumpbin /directives
    crt_exit_code,                  \* ec_data.exit_code of the last dumpbin /directives
    found,                          \* the four found_*_crt flags of the last iteration
    libs_with_no_crts,
    libs_with_multiple_crts,
    libs_with_debug_static_crt,
    libs_with_debug_dynamic_crt,
    libs_with_release_static_crt,
    libs_with_release_dynamic_crt,
    output_status,
    crt_report,                     \* the diagnostics printed by the check, in order
    \* perform_all_checks
    pc,                             \* the next statement of perform_all_checks
    error_count,
    library_linkage,                \* linkage_type_value_of(build_info.library_linkage)
    executed,                       \* the checks called so far, in call order
    report,                         \* the diagnostics printed so far, in print order
    debug_libs, release_libs,       \* number of .lib files under debug/lib and lib
    debug_dlls, release_dlls,       \* number of .dll files under debug/bin and bin
    invocations,                    \* the dumpbin command lines run so far
    outcome,                        \* "running", "accepted", "rejected", "fatal", "idle"
    \* perform_all_checks over an installation tree
    tree,                           \* the entries under paths.packages / spec.dir()
    tree_linkage,                   \* linkage_type_value_of(build_info.library_linkage)
    tree_pc,                        \* "common", "linkage", "final", "done", "halted", "idle"
    tree_error_count,
    tree_report,                    \* the checks that returned ERROR_DETECTED, in call order
    \* check_lib_architecture and check_dll_architecture
    arch_pc,                        \* "loop", "returned", "halted", "idle"
    arch_kind,                      \* "lib" or "dll": which of the two checks runs
    expected_architecture,          \* the argument expected_architecture
    arch_files,                     \* the argument files: the header read of each file
    file_i,                         \* index in arch_files of the next file of the loop
    binaries_with_invalid_architecture,
    arch_status                     \* the returned lint_status

archVars == <<machine_type, actual_arch>>
crtVars == <<crt_pc, expected_build_type, libs, lib_i, crt_output, crt_exit_code,
             found, libs_with_no_crts, libs_with_multiple_crts,
             libs_with_debug_static_crt, libs_with_debug_dynamic_crt,
             libs_with_release_static_crt, libs_with_release_dynamic_crt,
             output_status, crt_report>>
lintVars == <<pc, error_count, library_linkage, executed, report,
              debug_libs, release_libs, debug_dlls, release_dlls,
              invocations, outcome>>
treeVars == <<tree, tree_linkage, tree_pc, tree_error_count, tree_report>>
binVars == <<arch_pc, arch_kind, expected_architecture, arch_files, file_i,
             binaries_with_invalid_architecture, arch_status>>
vars == <<archVars, crtVars, lintVars, treeVars, binVars>>

\* enum class lint_status
SUCCESS == 0
ERROR_DETECTED == 1

(***************************************************************************)
(* Text                                                                    *)
(***************************************************************************)
RECURSIVE Concat(_)
Concat(ss) == IF ss = <<>> THEN <<>> ELSE Head(ss) \o Concat(Tail(ss))

\* the characters '0'..'9'
DigitChars == <<"0", "1", "2", "3", "4", "5", "6", "7", "8", "9">>

\* std::to_string of an unsigned value: its decimal digits, no leading zero
RECURSIVE to_string(_)
to_string(n) ==
    IF n < 10 THEN <<DigitChars[n + 1]>>
    ELSE to_string(n \div 10) \o <<DigitChars[(n % 10) + 1]>>

(***************************************************************************)
(* get_actual_architecture                                                 *)
(***************************************************************************)
\* enum class MachineType : uint16_t (coff_file_reader.h): the PE/COFF codes
AMD64 == 34404
IA64 == 512
I386 == 332
ARM == 448
ARMNT == 452

\* the width of MachineType's underlying type, static_cast<uint16_t>
MachineTypeBits == 16
MachineTypes == 0 .. (2 ^ MachineTypeBits - 1)

STR_x64 == <<"x", "6", "4">>
STR_x86 == <<"x", "8", "6">>
STR_arm == <<"a", "r", "m">>
STR_MachineTypeCode ==
    <<"M", "a", "c", "h", "i", "n", "e", " ", "T", "y", "p", "e", " ",
      "C", "o", "d", "e", " ", "=", " ">>

\* a plausible slip: ARMNT is missing from the switch
get_actual_architecture_no_armnt(mt) ==
    CASE mt = AMD64 \/ mt = IA64 -> STR_x64
      [] mt = I386 -> STR_x86
      [] mt = ARM -> STR_arm
      [] OTHER -> STR_MachineTypeCode \o to_string(mt % (2 ^ MachineTypeBits))

get_actual_architecture(mt) ==
    CASE mt = AMD64 \/ mt = IA64 -> STR_x64
      [] mt = I386 -> STR_x86
      [] mt = ARM \/ mt = ARMNT -> STR_arm
      [] OTHER -> STR_MachineTypeCode \o to_string(mt % (2 ^ MachineTypeBits))

(***************************************************************************)
(* check_crt_linkage_of_libs                                               *)
(***************************************************************************)
BuildTypes == {"DEBUG_STATIC", "DEBUG_DYNAMIC", "RELEASE_STATIC", "RELEASE_DYNAMIC"}

STR_LIBCMT ==
    <<"/", "D", "E", "F", "A", "U", "L", "T", "L", "I", "B", ":",
      "L", "I", "B", "C", "M", "T">>
STR_MSVCRT ==
    <<"/", "D", "E", "F", "A", "U", "L", "T", "L", "I", "B", ":",
      "M", "S", "V", "C", "R", "T">>

\* A std::regex of the shape used here: a literal, then optionally one
\* negated character class [^c] (not_next is <<>> or <<c>>).
\* a plausible slip: the release patterns without their [^D]
RELEASE_STATIC_CRT_prefix == [literal |-> STR_LIBCMT, not_next |-> <<>>]

DEBUG_STATIC_CRT == [literal |-> STR_LIBCMT \o <<"D">>, not_next |-> <<>>]
DEBUG_DYNAMIC_CRT == [literal |-> STR_MSVCRT \o <<"D">>, not_next |-> <<>>]
RELEASE_STATIC_CRT == [literal |-> STR_LIBCMT, not_next |-> <<"D">>]
RELEASE_DYNAMIC_CRT == [literal |-> STR_MSVCRT, not_next |-> <<"D">>]

\* the literal lit occurs in text at position i
OccursAt(text, lit, i) ==
    /\ i + Len(lit) - 1 <= Len(text)
    /\ \A k \in 1 .. Len(lit) : text[i + k - 1] = lit[k]

\* std::regex_search(text.cbegin(), text.cend(), re): some position matches the
\* literal and, for a pattern ending in [^c], is followed by a character
\* that is not c (the class consumes one character, so one must be there)
regex_search(text, re) ==
    \E i \in 1 .. Len(text) :
        /\ OccursAt(text, re.literal, i)
        /\ re.not_next # <<>> =>
              /\ i + Len(re.literal) <= Len(text)
              /\ text[i + Len(re.literal)] # re.not_next[1]

\* the four regex_search calls of one loop iteration
FoundFlags(output) ==
    [debug_static |-> regex_search(output, DEBUG_STATIC_CRT),
     debug_dynamic |-> regex_search(output, DEBUG_DYNAMIC_CRT),
     release_static |-> regex_search(output, RELEASE_STATIC_CRT),
     release_dynamic |-> regex_search(output, RELEASE_DYNAMIC_CRT)]

NoFlags ==
    [debug_static |-> FALSE, debug_dynamic |-> FALSE,
     release_static |-> FALSE, release_dynamic |-> FALSE]

BoolToInt(b) == IF b THEN 1 ELSE 0

crts_found_count(f) ==
    BoolToInt(f.debug_static) + BoolToInt(f.debug_dynamic)
        + BoolToInt(f.release_static) + BoolToInt(f.release_dynamic)

\* a plausible slip: the test for several runtimes is missing
GroupOf_no_multiple(f) ==
    IF crts_found_count(f) = 0 THEN "no_crts"
    ELSE IF f.debug_static THEN "DEBUG_STATIC"
    ELSE IF f.debug_dynamic THEN "DEBUG_DYNAMIC"
    ELSE IF f.release_static THEN "RELEASE_STATIC"
    ELSE "RELEASE_DYNAMIC"

\* the vector one loop iteration pushes the library to
GroupOf(f) ==
    IF crts_found_count(f) = 0 THEN "no_crts"
    ELSE IF crts_found_count(f) > 1 THEN "multiple_crts"
    ELSE IF f.debug_static THEN "DEBUG_STATIC"
    ELSE IF f.debug_dynamic THEN "DEBUG_DYNAMIC"
    ELSE IF f.release_static THEN "RELEASE_STATIC"
    ELSE "RELEASE_DYNAMIC"

\* the first mode found, in the order the loop body tests the flags
FirstFound(f) ==
    IF f.debug_static THEN "DEBUG_STATIC"
    ELSE IF f.debug_dynamic THEN "DEBUG_DYNAMIC"
    ELSE IF f.release_static THEN "RELEASE_STATIC"
    ELSE "RELEASE_DYNAMIC"

\* a plausible slip: the continue after libs_with_multiple_crts.push_back is
\* missing, so the loop body goes on to the mode tests
PushedTo_no_continue(f) ==
    IF crts_found_count(f) > 1 THEN {"multiple_crts", FirstFound(f)}
    ELSE {GroupOf(f)}

\* the vectors one loop iteration pushes the library to: every push_back of
\* the loop body is followed by continue, or ends the body
PushedTo(f) == {GroupOf(f)}

PushIf(cond, v, x) == IF cond THEN Append(v, x) ELSE v

\* the dumpbin /directives outputs tried: up to MaxPieces pieces, each the
\* text /DEFAULTLIB:LIBCMT or /DEFAULTLIB:MSVCRT, a D or a blank
MaxPieces == 3
\* the largest number of libraries in the argument libs
MaxLibs == 2
Pieces == {STR_LIBCMT, STR_MSVCRT, <<"D">>, <<" ">>}
DirectiveTexts ==
    {Concat(ps) : ps \in UNION {[1 .. n -> Pieces] : n \in 0 .. MaxPieces}}

\* what one loop iteration computes from the output of dumpbin, tabulated
\* over the outputs tried
Classification ==
    [out \in DirectiveTexts |->
        [found |-> FoundFlags(out), pushed_to |-> PushedTo(FoundFlags(out))]]

InitCrt ==
    /\ crt_pc = "loop"
    /\ expected_build_type \in BuildTypes
    /\ libs \in {[i \in 1 .. n |-> i] : n \in 0 .. MaxLibs}
    /\ lib_i = 1
    /\ crt_output = <<>>
    /\ crt_exit_code = 0
    /\ found = NoFlags
    /\ libs_with_no_crts = <<>>
    /\ libs_with_multiple_crts = <<>>
    /\ libs_with_debug_static_crt = <<>>
    /\ libs_with_debug_dynamic_crt = <<>>
    /\ libs_with_release_static_crt = <<>>
    /\ libs_with_release_dynamic_crt = <<>>
    /\ output_status = SUCCESS
    /\ crt_report = <<>>

IdleCrt ==
    /\ crt_pc = "idle"
    /\ expected_build_type = "DEBUG_STATIC"
    /\ libs = <<>>
    /\ lib_i = 1
    /\ crt_output = <<>>
    /\ crt_exit_code = 0
    /\ found = NoFlags
    /\ libs_with_no_crts = <<>>
    /\ libs_with_multiple_crts = <<>>
    /\ libs_with_debug_static_crt = <<>>
    /\ libs_with_debug_dynamic_crt = <<>>
    /\ libs_with_release_static_crt = <<>>
    /\ libs_with_release_dynamic_crt = <<>>
    /\ output_status = SUCCESS
    /\ crt_report = <<>>

crtGroups == <<libs_with_no_crts, libs_with_multiple_crts,
               libs_with_debug_static_crt, libs_with_debug_dynamic_crt,
               libs_with_release_static_crt, libs_with_release_dynamic_crt>>

\* one iteration of the loop over libs whose dumpbin run fails: check_exit
\* ends the process
crt_loop_tool_failure ==
    /\ crt_pc = "loop"
    /\ lib_i <= Len(libs)
    /\ crt_exit_code' = 1
    /\ crt_pc' = "halted"
    /\ UNCHANGED <<expected_build_type, libs, lib_i, crt_output, found, crtGroups,
                   output_status, crt_report>>
    /\ UNCHANGED <<archVars, lintVars, treeVars, binVars>>

\* one iteration of the loop over libs whose dumpbin run succeeds
crt_loop_iteration ==
    /\ crt_pc = "loop"
    /\ lib_i <= Len(libs)
    /\ \E out \in DirectiveTexts :
          LET lib == libs[lib_i]
              f == Classification[out].found
              gs == Classification[out].pushed_to
          IN  /\ crt_exit_code' = 0
              /\ crt_output' = out
              /\ found' = f
              /\ libs_with_no_crts' = PushIf("no_crts" \in gs, libs_with_no_crts, lib)
              /\ libs_with_multiple_crts' =
                    PushIf("multiple_crts" \in gs, libs_with_multiple_crts, lib)
              /\ libs_with_debug_static_crt' =
                    PushIf("DEBUG_STATIC" \in gs, libs_with_debug_static_crt, lib)
              /\ libs_with_debug_dynamic_crt' =
                    PushIf("DEBUG_DYNAMIC" \in gs, libs_with_debug_dynamic_crt, lib)
              /\ libs_with_release_static_crt' =
                    PushIf("RELEASE_STATIC" \in gs, libs_with_release_static_crt, lib)
              /\ libs_with_release_dynamic_crt' =
                    PushIf("RELEASE_DYNAMIC" \in gs, libs_with_release_dynamic_crt, lib)
    /\ lib_i' = lib_i + 1
    /\ UNCHANGED <<crt_pc, expected_build_type, libs, output_status, crt_report>>
    /\ UNCHANGED <<archVars, lintVars, treeVars, binVars>>

\* a plausible slip: the group of the expected build type is reported too
RECURSIVE GroupDiagnostics_every_group(_, _)
GroupDiagnostics_every_group(group_for_iteration, expected) ==
    IF group_for_iteration = <<>> THEN <<>>
    ELSE LET bif == Head(group_for_iteration)
         IN  (IF bif.files # <<>>
              THEN <<[msg |-> "expected_other_crt", build_type |-> bif.build_type,
                      files |-> bif.files]>>
              ELSE <<>>)
             \o GroupDiagnostics_every_group(Tail(group_for_iteration), expected)

\* the diagnostics of the four mode groups, in group_for_iteration order
RECURSIVE GroupDiagnostics(_, _)
GroupDiagnostics(group_for_iteration, expected) ==
    IF group_for_iteration = <<>> THEN <<>>
    ELSE LET bif == Head(group_for_iteration)
         IN  (IF bif.files # <<>> /\ bif.build_type # expected
              THEN <<[msg |-> "expected_other_crt", build_type |-> bif.build_type,
                      files |-> bif.files]>>
              ELSE <<>>)
             \o GroupDiagnostics(Tail(group_for_iteration), expected)

\* after the loop: the reports and the returned status
crt_report_groups ==
    /\ crt_pc = "loop"
    /\ lib_i > Len(libs)
    /\ LET group_for_iteration ==
              <<[build_type |-> "DEBUG_STATIC", files |-> libs_with_debug_static_crt],
                [build_type |-> "DEBUG_DYNAMIC", files |-> libs_with_debug_dynamic_crt],
                [build_type |-> "RELEASE_STATIC", files |-> libs_with_release_static_crt],
                [build_type |-> "RELEASE_DYNAMIC", files |-> libs_with_release_dynamic_crt]>>
           diags ==
              (IF libs_with_no_crts # <<>>
               THEN <<[msg |-> "could_not_detect", build_type |-> "",
                       files |-> libs_with_no_crts]>>
               ELSE <<>>)
              \o (IF libs_with_multiple_crts # <<>>
                  THEN <<[msg |-> "multiple_crt_linkages", build_type |-> "",
                          files |-> libs_with_multiple_crts]>>
                  ELSE <<>>)
              \o GroupDiagnostics(group_for_iteration, expected_build_type)
       IN  /\ crt_report' = diags
           /\ output_status' = IF diags # <<>> THEN ERROR_DETECTED ELSE SUCCESS
    /\ crt_pc' = "returned"
    /\ UNCHANGED <<expected_build_type, libs, lib_i, crt_output, crt_exit_code,
                   found, crtGroups>>
    /\ UNCHANGED <<archVars, lintVars, treeVars, binVars>>

NextCrt ==
    \/ crt_loop_tool_failure
    \/ crt_loop_iteration
    \/ crt_report_groups

(***************************************************************************)
(* perform_all_checks                                                      *)
(***************************************************************************)
LintStatus == {SUCCESS, ERROR_DETECTED}
LinkageTypes == {"DYNAMIC", "STATIC", "UNKNOWN"}
Systems == {"windows", "uwp"}

\* the largest number of binaries (.lib and .dll files) in the installation tree
MaxFiles == 2

\* a plausible slip: the calls in the order of the policy's numbered list
CommonChecks_policy_order ==
    <<"check_for_files_in_include_directory",
      "check_for_files_in_debug_include_directory",
      "check_for_files_in_debug_share_directory",
      "check_folder_lib_cmake",
      "check_folder_debug_lib_cmake",
      "check_for_misplaced_cmake_files",
      "check_for_dlls_in_lib_dirs",
      "check_for_exes",
      "check_for_copyright_file",
      "check_matching_debug_and_release_binaries:libs",
      "check_lib_architecture">>

\* the calls of perform_all_checks, in statement order, up to the switch
CommonChecks ==
    <<"check_for_files_in_include_directory",
      "check_for_files_in_debug_include_directory",
      "check_for_files_in_debug_share_directory",
      "check_folder_lib_cmake",
      "check_for_misplaced_cmake_files",
      "check_folder_debug_lib_cmake",
      "check_for_dlls_in_lib_dirs",
      "check_for_copyright_file",
      "check_for_exes",
      "check_matching_debug_and_release_binaries:libs",
      "check_lib_architecture">>
\* the calls of case LinkageType::DYNAMIC
DynamicChecks ==
    <<"check_matching_debug_and_release_binaries:dlls",
      "check_exports_of_dlls",
      "check_uwp_bit_of_dlls",
      "check_dll_architecture">>
\* the calls of case LinkageType::STATIC
StaticChecks ==
    <<"check_no_dlls_present",
      "check_bin_folders_are_not_present_in_static_build">>
\* the call after the switch
FinalChecks == <<"check_no_empty_folders">>

\* the statements a run goes through for a linkage type
Statements(linkage) ==
    CommonChecks
        \o (CASE linkage = "DYNAMIC" -> DynamicChecks
              [] linkage = "STATIC" -> StaticChecks
              [] OTHER -> <<"unknown_library_linkage">>)
        \o FinalChecks
        \o <<"decide">>

IndexOf(seq, x) == CHOOSE i \in 1 .. Len(seq) : seq[i] = x
\* the statement after statement s
NextStatement(linkage, s) ==
    Statements(linkage)[IndexOf(Statements(linkage), s) + 1]

\* a plausible slip: the status replaces the count instead of adding to it
PlusEq_assign(left, right) == right

\* operator +=(size_t&, const lint_status&)
PlusEq(left, right) == left + right

\* error_count += check(...): the call returns status, having printed its
\* diagnostic when the status is ERROR_DETECTED
Call(check, status) ==
    /\ executed' = Append(executed,
                          [check |-> check, returned |-> TRUE, status |-> status])
    /\ report' = IF status = ERROR_DETECTED THEN Append(report, check) ELSE report
    /\ error_count' = PlusEq(error_count, status)
    /\ pc' = NextStatement(library_linkage, check)
    /\ UNCHANGED outcome

\* Checks::check_exit(false, ...) inside a check: the process ends there
Exit(check) ==
    /\ executed' = Append(executed, [check |-> check, returned |-> FALSE])
    /\ report' = Append(report, "check_exit")
    /\ pc' = "halted"
    /\ outcome' = "fatal"
    /\ UNCHANGED error_count

\* a check that is a predicate over the installation tree
TreeCheck(check) ==
    /\ pc = check
    /\ \E status \in LintStatus : Call(check, status)
    /\ UNCHANGED <<library_linkage, debug_libs, release_libs,
                   debug_dlls, release_dlls, invocations>>
    /\ UNCHANGED <<archVars, crtVars, treeVars, binVars>>

check_for_files_in_include_directory ==
    TreeCheck("check_for_files_in_include_directory")
check_for_files_in_debug_include_directory ==
    TreeCheck("check_for_files_in_debug_include_directory")
check_for_files_in_debug_share_directory ==
    TreeCheck("check_for_files_in_debug_share_directory")
check_folder_lib_cmake ==
    TreeCheck("check_folder_lib_cmake")
check_for_misplaced_cmake_files ==
    TreeCheck("check_for_misplaced_cmake_files")
check_folder_debug_lib_cmake ==
    TreeCheck("check_folder_debug_lib_cmake")
check_for_dlls_in_lib_dirs ==
    TreeCheck("check_for_dlls_in_lib_dirs")
check_for_copyright_file ==
    TreeCheck("check_for_copyright_file")
check_for_exes ==
    TreeCheck("check_for_exes")
check_bin_folders_are_not_present_in_static_build ==
    TreeCheck("check_bin_folders_are_not_present_in_static_build")
check_no_empty_folders ==
    TreeCheck("check_no_empty_folders")

\* check_matching_debug_and_release_binaries on two lists of these sizes
check_matching_debug_and_release_binaries(debug_count, release_count) ==
    IF debug_count = release_count THEN SUCCESS ELSE ERROR_DETECTED

\* the enumeration of debug/lib and lib, then the parity check on them
check_matching_libs ==
    /\ pc = "check_matching_debug_and_release_binaries:libs"
    /\ \E d \in 0 .. MaxFiles, r \in 0 .. MaxFiles :
          /\ d + r <= MaxFiles
          /\ debug_libs' = d
          /\ release_libs' = r
          /\ Call("check_matching_debug_and_release_binaries:libs",
                  check_matching_debug_and_release_binaries(d, r))
    /\ UNCHANGED <<library_linkage, debug_dlls, release_dlls, invocations>>
    /\ UNCHANGED <<archVars, crtVars, treeVars, binVars>>

\* what read_lib and read_dll find in one file: its machine types, seen
\* through get_actual_architecture and the expected architecture
LibHeaders == {"one_expected", "one_other", "none", "several"}
DllHeaders == {"expected", "other"}

\* check_lib_architecture: the first library whose header does not hold exactly
\* one machine type ends the process; otherwise every mismatch is collected
check_lib_architecture ==
    /\ pc = "check_lib_architecture"
    /\ \E infos \in [1 .. (debug_libs + release_libs) -> LibHeaders] :
          IF \E i \in DOMAIN infos : infos[i] \in {"none", "several"}
          THEN Exit("check_lib_architecture")
          ELSE Call("check_lib_architecture",
                    IF \E i \in DOMAIN infos : infos[i] = "one_other"
                    THEN ERROR_DETECTED ELSE SUCCESS)
    /\ UNCHANGED <<library_linkage, debug_libs, release_libs,
                   debug_dlls, release_dlls, invocations>>
    /\ UNCHANGED <<archVars, crtVars, treeVars, binVars>>

\* the enumeration of debug/bin and bin, then the parity check on them
check_matching_dlls ==
    /\ pc = "check_matching_debug_and_release_binaries:dlls"
    /\ \E d \in 0 .. MaxFiles, r \in 0 .. MaxFiles :
          /\ debug_libs + release_libs + d + r <= MaxFiles
          /\ debug_dlls' = d
          /\ release_dlls' = r
          /\ Call("check_matching_debug_and_release_binaries:dlls",
                  check_matching_debug_and_release_binaries(d, r))
    /\ UNCHANGED <<library_linkage, debug_libs, release_libs, invocations>>
    /\ UNCHANGED <<archVars, crtVars, treeVars, binVars>>

\* what one dumpbin run returns: its exit code, and whether its output holds
\* the marker searched for
DumpbinRuns ==
    {[exit_code |-> 0, marker |-> TRUE], [exit_code |-> 0, marker |-> FALSE],
     [exit_code |-> 1, marker |-> FALSE]}

\* a plausible slip: the exit code of dumpbin is not looked at
FirstFailure_ignored(runs) == 0

\* the loop position at which check_exit(ec_data.exit_code == 0) ends the
\* process, 0 when every run succeeds
FirstFailure(runs) ==
    IF \E i \in DOMAIN runs : runs[i].exit_code # 0
    THEN CHOOSE i \in DOMAIN runs :
            /\ runs[i].exit_code # 0
            /\ \A j \in 1 .. (i - 1) : runs[j].exit_code = 0
    ELSE 0

\* the command lines a loop over the dlls runs, given what each would return
CommandLines(mode, runs) ==
    LET last == IF FirstFailure(runs) = 0 THEN Len(runs) ELSE FirstFailure(runs)
    IN  [i \in 1 .. last |->
            [mode |-> mode, dll |-> i, exit_code |-> runs[i].exit_code]]

\* a loop of dumpbin runs over the dlls, as in check_exports_of_dlls and
\* check_uwp_bit_of_dlls: the check collects the dlls whose output lacks the
\* marker, unless a run fails
DumpbinCheck(check, mode) ==
    \E runs \in [1 .. (debug_dlls + release_dlls) -> DumpbinRuns] :
        /\ invocations' = invocations \o CommandLines(mode, runs)
        /\ IF FirstFailure(runs) # 0
           THEN Exit(check)
           ELSE Call(check, IF \E i \in DOMAIN runs : ~runs[i].marker
                            THEN ERROR_DETECTED ELSE SUCCESS)

check_exports_of_dlls ==
    /\ pc = "check_exports_of_dlls"
    /\ DumpbinCheck("check_exports_of_dlls", "/exports")
    /\ UNCHANGED <<library_linkage, debug_libs, release_libs,
                   debug_dlls, release_dlls>>
    /\ UNCHANGED <<archVars, crtVars, treeVars, binVars>>

\* check_uwp_bit_of_dlls(spec.target_triplet().system(), dlls)
check_uwp_bit_of_dlls ==
    /\ pc = "check_uwp_bit_of_dlls"
    /\ \E expected_system_name \in Systems :
          IF expected_system_name # "uwp"
          THEN /\ Call("check_uwp_bit_of_dlls", SUCCESS)
               /\ UNCHANGED invocations
          ELSE DumpbinCheck("check_uwp_bit_of_dlls", "/headers")
    /\ UNCHANGED <<library_linkage, debug_libs, release_libs,
                   debug_dlls, release_dlls>>
    /\ UNCHANGED <<archVars, crtVars, treeVars, binVars>>

check_dll_architecture ==
    /\ pc = "check_dll_architecture"
    /\ \E infos \in [1 .. (debug_dlls + release_dlls) -> DllHeaders] :
          Call("check_dll_architecture",
               IF \E i \in DOMAIN infos : infos[i] = "other"
               THEN ERROR_DETECTED ELSE SUCCESS)
    /\ UNCHANGED <<library_linkage, debug_libs, release_libs,
                   debug_dlls, release_dlls, invocations>>
    /\ UNCHANGED <<archVars, crtVars, treeVars, binVars>>

\* the enumeration of every .dll of the tree, then check_no_dlls_present
check_no_dlls_present ==
    /\ pc = "check_no_dlls_present"
    /\ \E dlls \in 0 .. (MaxFiles - (debug_libs + release_libs)) :
          Call("check_no_dlls_present",
               IF dlls = 0 THEN SUCCESS ELSE ERROR_DETECTED)
    /\ UNCHANGED <<library_linkage, debug_libs, release_libs,
                   debug_dlls, release_dlls, invocations>>
    /\ UNCHANGED <<archVars, crtVars, treeVars, binVars>>

\* a plausible slip: the unknown linkage type is taken for unreachable
unknown_library_linkage_unreachable ==
    /\ pc = "unknown_library_linkage"
    /\ Exit("unknown_library_linkage")
    /\ UNCHANGED <<library_linkage, debug_libs, release_libs,
                   debug_dlls, release_dlls, invocations>>
    /\ UNCHANGED <<archVars, crtVars, treeVars, binVars>>

\* case LinkageType::UNKNOWN
unknown_library_linkage ==
    /\ pc = "unknown_library_linkage"
    /\ error_count' = error_count + 1
    /\ report' = Append(report, "unknown_library_linkage")
    /\ pc' = NextStatement(library_linkage, "unknown_library_linkage")
    /\ UNCHANGED <<library_linkage, executed, debug_libs, release_libs,
                   debug_dlls, release_dlls, invocations, outcome>>
    /\ UNCHANGED <<archVars, crtVars, treeVars, binVars>>

\* a plausible slip: a single error is let through
Rejects_more_than_one(count) == count > 1

\* if (error_count != 0)
Rejects(count) == count # 0

\* the end of perform_all_checks
decide ==
    /\ pc = "decide"
    /\ IF Rejects(error_count)
       THEN /\ report' = Append(report, "found_errors")
            /\ outcome' = "rejected"
       ELSE /\ report' = Append(report, "validation_done")
            /\ outcome' = "accepted"
    /\ pc' = "done"
    /\ UNCHANGED <<error_count, library_linkage, executed, debug_libs,
                   release_libs, debug_dlls, release_dlls, invocations>>
    /\ UNCHANGED <<archVars, crtVars, treeVars, binVars>>

InitLint ==
    /\ pc = "check_for_files_in_include_directory"
    /\ error_count = 0
    /\ library_linkage \in LinkageTypes
    /\ executed = <<>>
    /\ report = <<>>
    /\ debug_libs = 0
    /\ release_libs = 0
    /\ debug_dlls = 0
    /\ release_dlls = 0
    /\ invocations = <<>>
    /\ outcome = "running"

IdleLint ==
    /\ pc = "idle"
    /\ error_count = 0
    /\ library_linkage = "UNKNOWN"
    /\ executed = <<>>
    /\ report = <<>>
    /\ debug_libs = 0
    /\ release_libs = 0
    /\ debug_dlls = 0
    /\ release_dlls = 0
    /\ invocations = <<>>
    /\ outcome = "idle"

(***************************************************************************)
(* The run of get_actual_architecture                                      *)
(***************************************************************************)
InitArch ==
    /\ machine_type \in MachineTypes
    /\ actual_arch = <<>>

IdleArch ==
    /\ machine_type = 0
    /\ actual_arch = <<>>

call_get_actual_architecture ==
    /\ actual_arch = <<>>
    /\ actual_arch' = get_actual_architecture(machine_type)
    /\ UNCHANGED machine_type
    /\ UNCHANGED <<crtVars, lintVars, treeVars, binVars>>

(***************************************************************************)
(* The installation tree                                                   *)
(*                                                                         *)
(* A tree is the set of entries below paths.packages / spec.dir().  An     *)
(* entry is a path (the sequence of its names below that directory),       *)
(* whether it is a directory, and the extension of its file name.          *)
(***************************************************************************)
Dir(p) == [path |-> p, is_directory |-> TRUE, extension |-> ""]
File(p, ext) == [path |-> p, is_directory |-> FALSE, extension |-> ext]

\* paths.packages / spec.dir()
PackageDir == <<>>

\* spec.name()
SpecName == "pkg"

\* the directories a path lies in, below the package directory
Parents(p) == {SubSeq(p, 1, k) : k \in 1 .. (Len(p) - 1)}

\* the tree left by installing the entries of selection, each with its parents
Installed(selection) ==
    selection \cup {Dir(q) : q \in UNION {Parents(e.path) : e \in selection}}

\* largest number of entries the build step installs (parents come with them)
MaxEntries == 3

\* the entries a build step may install
Candidates ==
    { Dir(<<"include">>),
      File(<<"include", "a.h">>, ".h"),
      File(<<"debug", "include", "a.h">>, ".h"),
      File(<<"debug", "include", "a.ifc">>, ".ifc"),
      Dir(<<"debug", "share">>),
      File(<<"debug", "share", "a.txt">>, ".txt"),
      Dir(<<"lib", "cmake">>),
      File(<<"lib", "cmake", "a.cmake">>, ".cmake"),
      Dir(<<"debug", "lib", "cmake">>),
      File(<<"lib", "a.lib">>, ".lib"),
      File(<<"lib", "b.lib">>, ".lib"),
      File(<<"debug", "lib", "a.lib">>, ".lib"),
      File(<<"lib", "a.dll">>, ".dll"),
      Dir(<<"bin">>),
      File(<<"bin", "a.dll">>, ".dll"),
      File(<<"bin", "b.dll">>, ".dll"),
      File(<<"debug", "bin", "a.dll">>, ".dll"),
      File(<<"bin", "a.exe">>, ".exe"),
      File(<<"debug", "bin", "sub", "a.exe">>, ".exe"),
      File(<<"tools", "a.exe">>, ".exe"),
      File(<<"tools", "a.dll">>, ".dll"),
      File(<<"share", SpecName, "copyright">>, "") }

RECURSIVE SubsetsUpTo(_, _)
SubsetsUpTo(S, k) ==
    IF k = 0 \/ S = {} THEN {{}}
    ELSE LET x == CHOOSE y \in S : TRUE
         IN  SubsetsUpTo(S \ {x}, k)
                 \cup {r \cup {x} : r \in SubsetsUpTo(S \ {x}, k - 1)}

\* the trees left by a build step that installs at most max_entries entries
Trees(max_entries) ==
    {Installed(selection) : selection \in SubsetsUpTo(Candidates, max_entries)}

\* fs::exists
exists(t, p) == \E e \in t : e.path = p

\* fs::is_directory
is_directory(t, p) == \E e \in t : e.path = p /\ e.is_directory

IsBelow(p, dir) == Len(p) > Len(dir) /\ SubSeq(p, 1, Len(dir)) = dir

\* fs::is_empty of a directory: it has no entry
is_empty(t, p) == ~ \E e \in t : Len(e.path) = Len(p) + 1 /\ IsBelow(e.path, p)

\* fs::recursive_directory_iterator(dir): every entry below dir, at any
\* depth; none when dir does not exist
recursive_directory_iterator(t, dir) == {e \in t : IsBelow(e.path, dir)}

recursive_find_files_with_extension_in_dir(t, dir, extension) ==
    {current \in recursive_directory_iterator(t, dir) :
        ~current.is_directory /\ current.extension = extension}

\* the value returned by a check that prints when its condition holds
ErrorIf(cond) == IF cond THEN ERROR_DETECTED ELSE SUCCESS

tree_check_for_files_in_include_directory(t) ==
    LET include_dir == <<"include">>
    IN  ErrorIf(~exists(t, include_dir) \/ is_empty(t, include_dir))

tree_check_for_files_in_debug_include_directory(t) ==
    LET debug_include_dir == <<"debug", "include">>
        files_found == {current \in recursive_directory_iterator(t, debug_include_dir) :
                           ~current.is_directory /\ current.extension # ".ifc"}
    IN  ErrorIf(files_found # {})

tree_check_for_files_in_debug_share_directory(t) ==
    LET debug_share == <<"debug", "share">>
    IN  ErrorIf(exists(t, debug_share) /\ ~is_empty(t, debug_share))

tree_check_folder_lib_cmake(t) == ErrorIf(exists(t, <<"lib", "cmake">>))

tree_check_for_misplaced_cmake_files(t) ==
    LET misplaced_cmake_files ==
            recursive_find_files_with_extension_in_dir(t, <<"cmake">>, ".cmake")
            \cup recursive_find_files_with_extension_in_dir(t, <<"debug", "cmake">>, ".cmake")
            \cup recursive_find_files_with_extension_in_dir(t, <<"lib", "cmake">>, ".cmake")
            \cup recursive_find_files_with_extension_in_dir(t, <<"debug", "lib", "cmake">>, ".cmake")
    IN  ErrorIf(misplaced_cmake_files # {})

tree_check_folder_debug_lib_cmake(t) == ErrorIf(exists(t, <<"debug", "lib", "cmake">>))

tree_check_for_dlls_in_lib_dirs(t) ==
    LET dlls == recursive_find_files_with_extension_in_dir(t, <<"lib">>, ".dll")
                \cup recursive_find_files_with_extension_in_dir(t, <<"debug", "lib">>, ".dll")
    IN  ErrorIf(dlls # {})

tree_check_for_copyright_file(t) ==
    LET copyright_file == <<"share", SpecName, "copyright">>
    IN  ErrorIf(~exists(t, copyright_file))

\* a plausible slip: the whole package directory is scanned for executables
ExeDirs_whole_tree == {PackageDir}
ExeDirs == {<<"bin">>, <<"debug", "bin">>}

tree_check_for_exes(t) ==
    LET exes == UNION {recursive_find_files_with_extension_in_dir(t, dir, ".exe") :
                          dir \in ExeDirs}
    IN  ErrorIf(exes # {})

tree_check_matching_debug_and_release_binaries(debug_binaries, release_binaries) ==
    LET debug_count == Cardinality(debug_binaries)
        release_count == Cardinality(release_binaries)
    IN  IF debug_count = release_count THEN SUCCESS ELSE ERROR_DETECTED

tree_check_no_dlls_present(dlls) == IF dlls = {} THEN SUCCESS ELSE ERROR_DETECTED

tree_check_bin_folders_are_not_present_in_static_build(t) ==
    LET bin == <<"bin">>
        debug_bin == <<"debug", "bin">>
    IN  IF ~exists(t, bin) /\ ~exists(t, debug_bin) THEN SUCCESS ELSE ERROR_DETECTED

\* a plausible slip: the recursive iteration yields nothing
EmptyFolderCandidates_none(t, dir) == {}
EmptyFolderCandidates(t, dir) == recursive_directory_iterator(t, dir)

tree_check_no_empty_folders(t, dir) ==
    LET empty_directories == {current \in EmptyFolderCandidates(t, dir) :
                                 current.is_directory /\ is_empty(t, current.path)}
    IN  ErrorIf(empty_directories # {})

(***************************************************************************)
(* perform_all_checks over a tree.  The checks that read the tree are      *)
(* computed from it; the checks that read the content of the binaries      *)
(* (headers, dumpbin output) return what that content makes them return.   *)
(***************************************************************************)
Returned(check, status) == [check |-> check, returned |-> TRUE, status |-> status]
Exited(check) == [check |-> check, returned |-> FALSE]

\* what a check of the content of files can do: over no file its loop does
\* nothing and it returns SUCCESS
ContentCheck(check, files) ==
    IF files = {} THEN {Returned(check, SUCCESS)}
    ELSE {Returned(check, SUCCESS), Returned(check, ERROR_DETECTED), Exited(check)}

\* the calls of a sequence of statements that are made: those up to a
\* check_exit that ends the run
RECURSIVE CallsRun(_)
CallsRun(calls) ==
    IF calls = <<>> THEN <<>>
    ELSE IF ~Head(calls).returned THEN <<Head(calls)>>
    ELSE <<Head(calls)>> \o CallsRun(Tail(calls))

\* error_count after the statements error_count += check(...) of calls
RECURSIVE CountAfter(_, _)
CountAfter(count, calls) ==
    IF calls = <<>> THEN count
    ELSE CountAfter(IF Head(calls).returned THEN PlusEq(count, Head(calls).status)
                    ELSE count,
                    Tail(calls))

\* the checks of calls that printed their diagnostic, in call order
RECURSIVE Diagnosed(_)
Diagnosed(calls) ==
    IF calls = <<>> THEN <<>>
    ELSE IF Head(calls).returned /\ Head(calls).status = ERROR_DETECTED
         THEN <<Head(calls).check>> \o Diagnosed(Tail(calls))
         ELSE Diagnosed(Tail(calls))

TreeStatements(calls, next_pc) ==
    LET ran == CallsRun(calls)
    IN  /\ tree_error_count' = CountAfter(tree_error_count, ran)
        /\ tree_report' = tree_report \o Diagnosed(ran)
        /\ tree_pc' = IF ran # <<>> /\ ~ran[Len(ran)].returned
                      THEN "halted" ELSE next_pc
        /\ UNCHANGED <<tree, tree_linkage>>
        /\ UNCHANGED <<archVars, crtVars, lintVars, binVars>>

TreeDebugLibs(t) == recursive_find_files_with_extension_in_dir(t, <<"debug", "lib">>, ".lib")
TreeReleaseLibs(t) == recursive_find_files_with_extension_in_dir(t, <<"lib">>, ".lib")
TreeDebugDlls(t) == recursive_find_files_with_extension_in_dir(t, <<"debug", "bin">>, ".dll")
TreeReleaseDlls(t) == recursive_find_files_with_extension_in_dir(t, <<"bin">>, ".dll")

\* lines 614-622: the checks of the layout of the tree
TreeCommonCalls(t) ==
    << Returned("check_for_files_in_include_directory",
                tree_check_for_files_in_include_directory(t)),
       Returned("check_for_files_in_debug_include_directory",
                tree_check_for_files_in_debug_include_directory(t)),
       Returned("check_for_files_in_debug_share_directory",
                tree_check_for_files_in_debug_share_directory(t)),
       Returned("check_folder_lib_cmake", tree_check_folder_lib_cmake(t)),
       Returned("check_for_misplaced_cmake_files",
                tree_check_for_misplaced_cmake_files(t)),
       Returned("check_folder_debug_lib_cmake", tree_check_folder_debug_lib_cmake(t)),
       Returned("check_for_dlls_in_lib_dirs", tree_check_for_dlls_in_lib_dirs(t)),
       Returned("check_for_copyright_file", tree_check_for_copyright_file(t)),
       Returned("check_for_exes", tree_check_for_exes(t)) >>

\* a plausible slip: the parity of the libraries is left to the other
\* linkage types
TreeLibParityCalls_not_dynamic(t, linkage) ==
    IF linkage = "DYNAMIC" THEN <<>>
    ELSE << Returned("check_matching_debug_and_release_binaries:libs",
                     tree_check_matching_debug_and_release_binaries(
                         TreeDebugLibs(t), TreeReleaseLibs(t))) >>

\* line 627: the parity check of the libraries, before the switch
TreeLibParityCalls(t, linkage) ==
    << Returned("check_matching_debug_and_release_binaries:libs",
                tree_check_matching_debug_and_release_binaries(
                    TreeDebugLibs(t), TreeReleaseLibs(t))) >>

\* the parity check of case LinkageType::DYNAMIC
TreeDynamicParityCalls(t) ==
    << Returned("check_matching_debug_and_release_binaries:dlls",
                tree_check_matching_debug_and_release_binaries(
                    TreeDebugDlls(t), TreeReleaseDlls(t))) >>

TreeStaticCalls(t) ==
    << Returned("check_no_dlls_present",
                tree_check_no_dlls_present(
                    recursive_find_files_with_extension_in_dir(t, PackageDir, ".dll"))),
       Returned("check_bin_folders_are_not_present_in_static_build",
                tree_check_bin_folders_are_not_present_in_static_build(t)) >>

TreeUnknownCalls == << Returned("unknown_library_linkage", 1) >>

\* lines 614-633: the checks made for every linkage type
tree_common_checks ==
    /\ tree_pc = "common"
    /\ \E lib_architecture \in
              ContentCheck("check_lib_architecture",
                           TreeDebugLibs(tree) \cup TreeReleaseLibs(tree)) :
          TreeStatements(TreeCommonCalls(tree)
                             \o TreeLibParityCalls(tree, tree_linkage)
                             \o <<lib_architecture>>,
                         "linkage")

\* lines 635-673: the switch on the linkage type
tree_linkage_checks ==
    /\ tree_pc = "linkage"
    /\ CASE tree_linkage = "DYNAMIC" ->
              LET dlls == TreeDebugDlls(tree) \cup TreeReleaseDlls(tree)
              IN  \E exports \in ContentCheck("check_exports_of_dlls", dlls),
                     uwp_bit \in ContentCheck("check_uwp_bit_of_dlls", dlls),
                     dll_architecture \in ContentCheck("check_dll_architecture", dlls) :
                      TreeStatements(TreeDynamicParityCalls(tree)
                                         \o <<exports, uwp_bit, dll_architecture>>,
                                     "final")
         [] tree_linkage = "STATIC" -> TreeStatements(TreeStaticCalls(tree), "final")
         [] tree_linkage = "UNKNOWN" -> TreeStatements(TreeUnknownCalls, "final")

\* lines 681-690: the last check and the decision
tree_final_checks ==
    /\ tree_pc = "final"
    /\ LET calls == << Returned("check_no_empty_folders",
                                tree_check_no_empty_folders(tree, PackageDir)) >>
       IN  TreeStatements(calls,
                          IF Rejects(CountAfter(tree_error_count, calls))
                          THEN "rejected" ELSE "accepted")

InitTree ==
    /\ tree \in Trees(MaxEntries)
    /\ tree_linkage \in LinkageTypes
    /\ tree_pc = "common"
    /\ tree_error_count = 0
    /\ tree_report = <<>>

IdleTree ==
    /\ tree = {}
    /\ tree_linkage = "UNKNOWN"
    /\ tree_pc = "idle"
    /\ tree_error_count = 0
    /\ tree_report = <<>>

NextTree ==
    \/ tree_common_checks
    \/ tree_linkage_checks
    \/ tree_final_checks

(***************************************************************************)
(* check_lib_architecture and check_dll_architecture                       *)
(*                                                                         *)
(* A file of the argument is its position in the list.  What              *)
(* COFFFileReader reads from it is an input: the read fails, or it yields  *)
(* the machine types of a library, or the machine type of a dll.           *)
(***************************************************************************)
\* largest number of files given to an architecture check
MaxBinaries == 3

\* spec.target_triplet().architecture()
Architectures == {STR_x86, STR_x64, STR_arm}

\* lib_info.machine_types of the libraries tried: none, one, several
MachineTypeLists ==
    {<<>>, <<AMD64>>, <<I386>>, <<ARMNT>>, <<0>>, <<AMD64, I386>>, <<I386, I386>>}

LibInfos ==
    {[read |-> TRUE, machine_types |-> m] : m \in MachineTypeLists}
        \cup {[read |-> FALSE, machine_types |-> <<>>]}

\* dll_info.machine_type of the dlls tried
DllInfos ==
    {[read |-> TRUE, machine_type |-> m] : m \in {AMD64, I386, ARMNT, 0}}
        \cup {[read |-> FALSE, machine_type |-> 0]}

FileLists(infos) == UNION {[1 .. n -> infos] : n \in 0 .. MaxBinaries}

\* a plausible slip: only the absence of a machine type is refused
SingleMachineType_at_least_one(machine_types) == Len(machine_types) >= 1

\* the condition of Checks::check_exit in check_lib_architecture
SingleMachineType(machine_types) == Len(machine_types) = 1

\* a plausible slip: the mismatch replaces the ones collected before it
push_back_overwrite(v, x) == <<x>>

\* binaries_with_invalid_architecture.push_back({file, actual_architecture})
push_back(v, x) == Append(v, x)

\* the body of both loops after the header is read
CompareArchitecture(mt) ==
    LET actual_architecture == get_actual_architecture(mt)
    IN  /\ binaries_with_invalid_architecture' =
               IF expected_architecture # actual_architecture
               THEN push_back(binaries_with_invalid_architecture,
                              [file |-> file_i, actual_arch |-> actual_architecture])
               ELSE binaries_with_invalid_architecture
        /\ file_i' = file_i + 1
        /\ UNCHANGED arch_pc

\* COFFFileReader::read_lib or read_dll fails on the file: the run ends
read_failure ==
    /\ arch_pc = "loop"
    /\ file_i <= Len(arch_files)
    /\ ~arch_files[file_i].read
    /\ arch_pc' = "halted"
    /\ UNCHANGED <<arch_kind, expected_architecture, arch_files, file_i,
                   binaries_with_invalid_architecture, arch_status>>
    /\ UNCHANGED <<archVars, crtVars, lintVars, treeVars>>

\* one iteration of the loop of check_lib_architecture
lib_architecture_iteration ==
    /\ arch_pc = "loop"
    /\ arch_kind = "lib"
    /\ file_i <= Len(arch_files)
    /\ arch_files[file_i].read
    /\ LET info == arch_files[file_i]
       IN  IF ~SingleMachineType(info.machine_types)
           THEN /\ arch_pc' = "halted"
                /\ UNCHANGED <<file_i, binaries_with_invalid_architecture>>
           ELSE CompareArchitecture(info.machine_types[1])
    /\ UNCHANGED <<arch_kind, expected_architecture, arch_files, arch_status>>
    /\ UNCHANGED <<archVars, crtVars, lintVars, treeVars>>

\* one iteration of the loop of check_dll_architecture
dll_architecture_iteration ==
    /\ arch_pc = "loop"
    /\ arch_kind = "dll"
    /\ file_i <= Len(arch_files)
    /\ arch_files[file_i].read
    /\ CompareArchitecture(arch_files[file_i].machine_type)
    /\ UNCHANGED <<arch_kind, expected_architecture, arch_files, arch_status>>
    /\ UNCHANGED <<archVars, crtVars, lintVars, treeVars>>

\* after the loop of either check
architecture_report ==
    /\ arch_pc = "loop"
    /\ file_i > Len(arch_files)
    /\ arch_status' = IF binaries_with_invalid_architecture # <<>>
                      THEN ERROR_DETECTED ELSE SUCCESS
    /\ arch_pc' = "returned"
    /\ UNCHANGED <<arch_kind, expected_architecture, arch_files, file_i,
                   binaries_with_invalid_architecture>>
    /\ UNCHANGED <<archVars, crtVars, lintVars, treeVars>>

InitBin ==
    /\ arch_pc = "loop"
    /\ arch_kind \in {"lib", "dll"}
    /\ expected_architecture \in Architectures
    /\ arch_files \in (IF arch_kind = "lib" THEN FileLists(LibInfos)
                       ELSE FileLists(DllInfos))
    /\ file_i = 1
    /\ binaries_with_invalid_architecture = <<>>
    /\ arch_status = SUCCESS

IdleBin ==
    /\ arch_pc = "idle"
    /\ arch_kind = "lib"
    /\ expected_architecture = <<>>
    /\ arch_files = <<>>
    /\ file_i = 1
    /\ binaries_with_invalid_architecture = <<>>
    /\ arch_status = SUCCESS

NextBin ==
    \/ read_failure
    \/ lib_architecture_iteration
    \/ dll_architecture_iteration
    \/ architecture_report

(***************************************************************************)
(* Specifications                                                          *)
(***************************************************************************)
Init == IdleArch /\ IdleCrt /\ InitLint /\ IdleTree /\ IdleBin

Next ==
    \/ check_for_files_in_include_directory
    \/ check_for_files_in_debug_include_directory
    \/ check_for_files_in_debug_share_directory
    \/ check_folder_lib_cmake
    \/ check_for_misplaced_cmake_files
    \/ check_folder_debug_lib_cmake
    \/ check_for_dlls_in_lib_dirs
    \/ check_for_copyright_file
    \/ check_for_exes
    \/ check_matching_libs
    \/ check_lib_architecture
    \/ check_matching_dlls
    \/ check_exports_of_dlls
    \/ check_uwp_bit_of_dlls
    \/ check_dll_architecture
    \/ check_no_dlls_present
    \/ check_bin_folders_are_not_present_in_static_build
    \/ unknown_library_linkage
    \/ check_no_empty_folders
    \/ decide

Spec == Init /\ [][Next]_vars

InitCrtOnly == IdleArch /\ InitCrt /\ IdleLint /\ IdleTree /\ IdleBin
SpecCrt == InitCrtOnly /\ [][NextCrt]_vars

InitArchOnly == InitArch /\ IdleCrt /\ IdleLint /\ IdleTree /\ IdleBin
NextArch == call_get_actual_architecture
SpecArch == InitArchOnly /\ [][NextArch]_vars

InitTreeOnly == IdleArch /\ IdleCrt /\ IdleLint /\ InitTree /\ IdleBin
SpecTree == InitTreeOnly /\ [][NextTree]_vars

InitBinOnly == IdleArch /\ IdleCrt /\ IdleLint /\ IdleTree /\ InitBin
SpecBin == InitBinOnly /\ [][NextBin]_vars

(***************************************************************************)
(* Properties of perform_all_checks (under Spec)                           *)
(***************************************************************************)
\* a call that returned ERROR_DETECTED
Violation(call) == call.returned /\ call.status = ERROR_DETECTED

\* the number of calls so far that returned ERROR_DETECTED
ViolationsReturned ==
    Cardinality({i \in 1 .. Len(executed) : Violation(executed[i])})

Occurs(seq, x) == \E i \in 1 .. Len(seq) : seq[i] = x

\* the calls perform_all_checks makes up to the switch, in statement order,
\* written out call by call
ExpectedCommonCalls ==
    <<"check_for_files_in_include_directory",
      "check_for_files_in_debug_include_directory",
      "check_for_files_in_debug_share_directory",
      "check_folder_lib_cmake",
      "check_for_misplaced_cmake_files",
      "check_folder_debug_lib_cmake",
      "check_for_dlls_in_lib_dirs",
      "check_for_copyright_file",
      "check_for_exes",
      "check_matching_debug_and_release_binaries:libs",
      "check_lib_architecture">>

\* the calls perform_all_checks makes for each linkage type
ExpectedCallsTable ==
    [linkage \in LinkageTypes |->
        ExpectedCommonCalls
        \o (IF linkage = "DYNAMIC"
            THEN <<"check_matching_debug_and_release_binaries:dlls",
                   "check_exports_of_dlls",
                   "check_uwp_bit_of_dlls",
                   "check_dll_architecture">>
            ELSE IF linkage = "STATIC"
            THEN <<"check_no_dlls_present",
                   "check_bin_folders_are_not_present_in_static_build">>
            ELSE <<>>)
        \o <<"check_no_empty_folders">>]
ExpectedCalls(linkage) == ExpectedCallsTable[linkage]

\* C1: a run that reaches its end is Accepted (success line printed, no
\* failure exit) exactly when error_count is zero; with error_count >= 1 it
\* is Rejected and the success line is never printed.
C1_AcceptedIffNoViolation ==
    /\ pc = "done" =>
          /\ outcome \in {"accepted", "rejected"}
          /\ outcome = "accepted" <=> error_count = 0
          /\ error_count >= 1 =>
                /\ outcome = "rejected"
                /\ ~Occurs(report, "validation_done")
                /\ report[Len(report)] = "found_errors"
          /\ error_count = 0 => report[Len(report)] = "validation_done"
    /\ outcome \in {"accepted", "rejected"} => pc = "done"
    /\ Occurs(report, "validation_done") => outcome = "accepted"

C1_Witness ==
    /\ pc = "done"
    /\ error_count = 1
    /\ outcome = "rejected"

\* C2: a violation never aborts the run: at the end every check applicable to
\* the linkage type has been called exactly once, in whatever way the earlier
\* ones returned, and error_count is the number of calls that returned
\* ERROR_DETECTED, plus 1 for an unrecognized linkage type; a run stops early
\* only where a check ended the process itself.
C2_EveryCheckRunsAndCounts ==
    /\ pc \in {"decide", "done"} =>
          /\ [i \in 1 .. Len(executed) |-> executed[i].check]
                = ExpectedCalls(library_linkage)
          /\ \A i \in 1 .. Len(executed) :
                executed[i].returned /\ executed[i].status \in LintStatus
          /\ error_count = ViolationsReturned
                + (IF library_linkage = "UNKNOWN" THEN 1 ELSE 0)
    /\ \A i \in 1 .. Len(executed) :
          /\ executed[i].check = ExpectedCalls(library_linkage)[i]
          /\ Violation(executed[i]) =>
                \/ i < Len(executed)
                \/ outcome # "fatal"
    /\ outcome = "fatal" =>
          /\ executed # <<>>
          /\ ~executed[Len(executed)].returned

C2_Witness ==
    /\ pc = "done"
    /\ library_linkage = "DYNAMIC"
    /\ Violation(executed[1])
    /\ Violation(executed[9])
    /\ Violation(executed[16])
    /\ error_count = 3

\* some dumpbin run so far returned a non-zero exit code
DumpbinFailed == \E i \in 1 .. Len(invocations) : invocations[i].exit_code # 0

\* C3: once a dumpbin run has returned a non-zero exit code the run has halted:
\* the failing run is the last one, no file is examined after it, no command
\* line is run twice, the check that made the run is the last one called, no
\* step remains, and the run is not Accepted, whatever error_count is.
C3_ToolFailureHalts ==
    /\ DumpbinFailed =>
          /\ invocations[Len(invocations)].exit_code # 0
          /\ \A i \in 1 .. (Len(invocations) - 1) : invocations[i].exit_code = 0
          /\ outcome = "fatal"
          /\ pc = "halted"
          /\ ~executed[Len(executed)].returned
          /\ executed[Len(executed)].check
                \in {"check_exports_of_dlls", "check_uwp_bit_of_dlls"}
          /\ ~Occurs(report, "validation_done")
          /\ ~ENABLED Next
    /\ \A i, j \in 1 .. Len(invocations) :
          (/\ invocations[i].mode = invocations[j].mode
           /\ invocations[i].dll = invocations[j].dll) => i = j

C3_Witness ==
    /\ DumpbinFailed
    /\ Len(invocations) >= 2
    /\ error_count >= 2

\* the position of x in seq, 0 when it does not occur
PositionIn(seq, x) ==
    IF Occurs(seq, x) THEN CHOOSE i \in 1 .. Len(seq) : seq[i] = x ELSE 0

\* the lines report can hold
ReportLines ==
    UNION {{ExpectedCalls(l)[i] : i \in 1 .. Len(ExpectedCalls(l))} :
              l \in LinkageTypes}
        \cup {"unknown_library_linkage", "check_exit", "found_errors", "validation_done"}

\* the diagnostics of report that belong to the checks ranked by rank (rank
\* 0: not ranked) appear in increasing rank
InOrderOf(rank) ==
    LET ranked(x) == rank[x] > 0
        diagnostics == SelectSeq(report, ranked)
    IN  \A i \in 1 .. (Len(diagnostics) - 1) :
            rank[diagnostics[i]] < rank[diagnostics[i + 1]]

\* the battery in the order of the policy's numbered list
PolicyOrder ==
    <<"check_for_files_in_include_directory",
      "check_for_files_in_debug_include_directory",
      "check_for_files_in_debug_share_directory",
      "check_folder_lib_cmake",
      "check_folder_debug_lib_cmake",
      "check_for_misplaced_cmake_files",
      "check_for_dlls_in_lib_dirs",
      "check_for_exes",
      "check_for_copyright_file",
      "check_matching_debug_and_release_binaries:libs",
      "check_matching_debug_and_release_binaries:dlls",
      "check_no_dlls_present",
      "check_bin_folders_are_not_present_in_static_build",
      "check_no_empty_folders">>
PolicyRank == [x \in ReportLines |-> PositionIn(PolicyOrder, x)]
StatementRank ==
    [l \in LinkageTypes |-> [x \in ReportLines |-> PositionIn(ExpectedCalls(l), x)]]

\* C4 as stated: the checks execute and report in the order of the policy's
\* numbered list, the executable check before the license check and the two
\* lib/cmake checks next to each other, whichever checks fail.
C4_PolicyOrder ==
    /\ InOrderOf(PolicyRank)
    /\ \A i \in 1 .. (Len(executed) - 1) :
          executed[i].check = "check_folder_lib_cmake"
              => executed[i + 1].check = "check_folder_debug_lib_cmake"

\* C4 as amended: the checks execute and report in one fixed order, the
\* statement order of perform_all_checks, whichever checks fail: the license
\* check comes before the executable check, and the misplaced cmake files
\* check comes between the two lib/cmake checks.
C4_StatementOrder ==
    LET ranked(x) == StatementRank[library_linkage][x] > 0
        violated == SelectSeq(executed, Violation)
    IN  /\ InOrderOf(StatementRank[library_linkage])
        /\ \A i \in 1 .. Len(executed) :
              executed[i].check = ExpectedCalls(library_linkage)[i]
        /\ SelectSeq(report, ranked) = [i \in 1 .. Len(violated) |-> violated[i].check]

C4_Witness ==
    /\ pc = "done"
    /\ \E i \in 1 .. (Len(report) - 1) :
          /\ report[i] = "check_for_copyright_file"
          /\ report[i + 1] = "check_for_exes"
    /\ Occurs(report, "check_folder_lib_cmake")
    /\ Occurs(report, "check_folder_debug_lib_cmake")
    /\ ~Occurs(report, "check_for_misplaced_cmake_files")

\* C5: an unrecognized library_linkage adds exactly one to error_count and is
\* not fatal: the run goes on from the switch to check_no_empty_folders and to
\* the decision, which rejects it; no check of the dynamic or the static case
\* is called.
C5_UnknownLinkageIsOneViolation ==
    library_linkage = "UNKNOWN" =>
        /\ \A i \in 1 .. Len(executed) :
              /\ ~Occurs(DynamicChecks, executed[i].check)
              /\ ~Occurs(StaticChecks, executed[i].check)
        /\ Occurs(report, "unknown_library_linkage") =>
              /\ outcome # "fatal"
              /\ pc \in {"check_no_empty_folders", "decide", "done"}
              /\ error_count = ViolationsReturned + 1
        /\ ~Occurs(report, "unknown_library_linkage") =>
              error_count = ViolationsReturned
        /\ pc \in {"decide", "done"} =>
              /\ Occurs(report, "unknown_library_linkage")
              /\ executed[Len(executed)].check = "check_no_empty_folders"
        /\ pc = "done" => outcome = "rejected"
        /\ outcome = "fatal" =>
              /\ executed[Len(executed)].check = "check_lib_architecture"
              /\ ~Occurs(report, "unknown_library_linkage")

C5_Witness ==
    /\ library_linkage = "UNKNOWN"
    /\ pc = "done"
    /\ error_count = 1
    /\ ViolationsReturned = 0
    /\ outcome = "rejected"

(***************************************************************************)
(* Properties of get_actual_architecture (under SpecArch)                  *)
(***************************************************************************)
IsDigit(c) == \E d \in 0 .. 9 : DigitChars[d + 1] = c
DigitValue(c) == CHOOSE d \in 0 .. 9 : DigitChars[d + 1] = c

\* the number a sequence of decimal digits writes
RECURSIVE DecimalValue(_)
DecimalValue(ds) ==
    IF ds = <<>> THEN 0
    ELSE 10 * DecimalValue(SubSeq(ds, 1, Len(ds) - 1)) + DigitValue(ds[Len(ds)])

\* s is the decimal writing of n: digits only, no leading zero, value n
IsDecimalOf(s, n) ==
    /\ Len(s) >= 1
    /\ \A i \in 1 .. Len(s) : IsDigit(s[i])
    /\ Len(s) > 1 => s[1] # "0"
    /\ DecimalValue(s) = n

\* C6: get_actual_architecture is total over the 16-bit machine types: AMD64
\* and IA64 give "x64", I386 gives "x86", ARM and ARMNT give "arm", and every
\* other code c gives "Machine Type Code = " followed by the decimal writing
\* of c, which is none of the three names.
C6_ArchitectureMapping ==
    /\ actual_arch = <<>> => ENABLED call_get_actual_architecture
    /\ actual_arch # <<>> =>
          /\ machine_type \in {AMD64, IA64} => actual_arch = STR_x64
          /\ machine_type = I386 => actual_arch = STR_x86
          /\ machine_type \in {ARM, ARMNT} => actual_arch = STR_arm
          /\ machine_type \notin {AMD64, IA64, I386, ARM, ARMNT} =>
                /\ Len(actual_arch) > Len(STR_MachineTypeCode)
                /\ SubSeq(actual_arch, 1, Len(STR_MachineTypeCode))
                      = STR_MachineTypeCode
                /\ IsDecimalOf(SubSeq(actual_arch, Len(STR_MachineTypeCode) + 1,
                                      Len(actual_arch)),
                               machine_type)
                /\ actual_arch \notin {STR_x64, STR_x86, STR_arm}

C6_Witness ==
    /\ machine_type = 2 ^ MachineTypeBits - 1
    /\ actual_arch = STR_MachineTypeCode \o <<"6", "5", "5", "3", "5">>

(***************************************************************************)
(* Properties of check_crt_linkage_of_libs (under SpecCrt)                 *)
(***************************************************************************)
GroupNames == {"no_crts", "multiple_crts"} \cup BuildTypes

GroupVector(g) ==
    CASE g = "no_crts" -> libs_with_no_crts
      [] g = "multiple_crts" -> libs_with_multiple_crts
      [] g = "DEBUG_STATIC" -> libs_with_debug_static_crt
      [] g = "DEBUG_DYNAMIC" -> libs_with_debug_dynamic_crt
      [] g = "RELEASE_STATIC" -> libs_with_release_static_crt
      [] g = "RELEASE_DYNAMIC" -> libs_with_release_dynamic_crt

\* the groups a library is in
GroupsHolding(lib) == {g \in GroupNames : Occurs(GroupVector(g), lib)}

\* how often a library is listed over all the groups
TimesListed(lib) ==
    LET all == Concat(<<libs_with_no_crts, libs_with_multiple_crts,
                        libs_with_debug_static_crt, libs_with_debug_dynamic_crt,
                        libs_with_release_static_crt,
                        libs_with_release_dynamic_crt>>)
    IN  Cardinality({k \in 1 .. Len(all) : all[k] = lib})

\* a library has been classified from crt_output, the output of its dumpbin run
Classified == lib_i > 1
LastLib == libs[lib_i - 1]

MarkerRegex(mode) ==
    CASE mode = "DEBUG_STATIC" -> DEBUG_STATIC_CRT
      [] mode = "DEBUG_DYNAMIC" -> DEBUG_DYNAMIC_CRT
      [] mode = "RELEASE_STATIC" -> RELEASE_STATIC_CRT
      [] mode = "RELEASE_DYNAMIC" -> RELEASE_DYNAMIC_CRT

\* the markers detected in a text
Detected(text) == {mode \in BuildTypes : regex_search(text, MarkerRegex(mode))}

\* C7: the group a library goes to is decided by the number of markers
\* detected in its directive text: none gives the 'could not detect' group,
\* two or more the 'multiple crt linkages' group, exactly one the group of
\* that marker's mode, and no other group.
C7_ClassificationByMarkerCount ==
    Classified =>
        LET n == Cardinality(Detected(crt_output))
        IN  /\ n = 0 => GroupsHolding(LastLib) = {"no_crts"}
            /\ n >= 2 => GroupsHolding(LastLib) = {"multiple_crts"}
            /\ n = 1 => \A mode \in Detected(crt_output) :
                            GroupsHolding(LastLib) = {mode}

C7_Witness ==
    /\ lib_i = 3
    /\ libs_with_no_crts = <<1>>
    /\ Detected(crt_output) = {"RELEASE_STATIC", "DEBUG_DYNAMIC"}
    /\ libs_with_multiple_crts = <<2>>

\* lit occurs in text, and every occurrence is immediately followed by c
EveryOccurrenceFollowedBy(text, lit, c) ==
    /\ \E i \in 1 .. Len(text) : OccursAt(text, lit, i)
    /\ \A i \in 1 .. Len(text) :
          OccursAt(text, lit, i) =>
              /\ i + Len(lit) <= Len(text)
              /\ text[i + Len(lit)] = c
NoOccurrence(text, lit) == \A i \in 1 .. Len(text) : ~OccursAt(text, lit, i)

\* C8: in a text where every /DEFAULTLIB:LIBCMT is immediately followed by D
\* the release-static marker is not detected, and a text holding only
\* /DEFAULTLIB:LIBCMTD puts its library in the debug-static group, not in the
\* ambiguous one; the same for /DEFAULTLIB:MSVCRTD and release-dynamic.
C8_DebugMarkerIsNotRelease ==
    Classified =>
        /\ EveryOccurrenceFollowedBy(crt_output, STR_LIBCMT, "D") =>
              /\ ~found.release_static
              /\ found.debug_static
              /\ ~Occurs(libs_with_release_static_crt, LastLib)
              /\ NoOccurrence(crt_output, STR_MSVCRT) =>
                    GroupsHolding(LastLib) = {"DEBUG_STATIC"}
        /\ EveryOccurrenceFollowedBy(crt_output, STR_MSVCRT, "D") =>
              /\ ~found.release_dynamic
              /\ found.debug_dynamic
              /\ ~Occurs(libs_with_release_dynamic_crt, LastLib)
              /\ NoOccurrence(crt_output, STR_LIBCMT) =>
                    GroupsHolding(LastLib) = {"DEBUG_DYNAMIC"}

C8_Witness ==
    /\ Classified
    /\ crt_output = STR_LIBCMT \o <<"D">>
    /\ libs_with_debug_static_crt = <<LastLib>>
    /\ libs_with_multiple_crts = <<>>

\* lit occurs in text at a place where it is not followed by c: followed by
\* another character, or by the end of the text
OccursNotFollowedBy(text, lit, c) ==
    \E i \in 1 .. Len(text) :
        /\ OccursAt(text, lit, i)
        /\ \/ i + Len(lit) > Len(text)
           \/ text[i + Len(lit)] # c

\* C9: the release-static marker is detected whenever the text holds a
\* /DEFAULTLIB:LIBCMT not followed by D, and the release-dynamic marker
\* whenever it holds a /DEFAULTLIB:MSVCRT not followed by D, wherever the
\* occurrence is, the end of the text included.
C9_ReleaseMarkerDetected ==
    Classified =>
        /\ OccursNotFollowedBy(crt_output, STR_LIBCMT, "D") => found.release_static
        /\ OccursNotFollowedBy(crt_output, STR_MSVCRT, "D") => found.release_dynamic

\* C10: every library the loop has gone through is listed once, in exactly
\* one of the six groups, every other library in none; after the loop that is
\* every library of libs, and no library is in two reports.
C10_ExactlyOneGroup ==
    /\ \A k \in 1 .. Len(libs) :
          IF k < lib_i
          THEN /\ Cardinality(GroupsHolding(libs[k])) = 1
               /\ TimesListed(libs[k]) = 1
          ELSE GroupsHolding(libs[k]) = {}
    /\ \A g \in GroupNames : \A k \in 1 .. Len(GroupVector(g)) :
          Occurs(libs, GroupVector(g)[k])
    /\ crt_pc = "returned" =>
          /\ lib_i = Len(libs) + 1
          /\ \A a, b \in 1 .. Len(crt_report) : \A lib \in 1 .. Len(libs) :
                (Occurs(crt_report[a].files, lib) /\ Occurs(crt_report[b].files, lib))
                    => a = b

C10_Witness ==
    /\ crt_pc = "returned"
    /\ Len(libs) = 2
    /\ libs_with_multiple_crts = <<1>>
    /\ libs_with_release_static_crt = <<2>>
    /\ Len(crt_report) = 2

(***************************************************************************)
(* Properties of perform_all_checks over a tree (under SpecTree)           *)
(***************************************************************************)
\* the run went through every statement of perform_all_checks
TreeRunComplete == tree_pc \in {"accepted", "rejected"}

\* how many times x occurs in seq
Times(seq, x) == Len(SelectSeq(seq, LAMBDA y : y = x))

IncludeDir == <<"include">>

\* the include directory exists and holds nothing
IncludeIsEmpty(t) == exists(t, IncludeDir) /\ is_empty(t, IncludeDir)

\* the tree with a header placed in its include directory
WithHeader(t) == t \cup {File(IncludeDir \o <<"a.h">>, ".h")}

\* the checks reading the tree that find a violation in t, for a linkage type
LayoutViolations(t, linkage) ==
    Diagnosed(TreeCommonCalls(t)
              \o TreeLibParityCalls(t, linkage)
              \o (CASE linkage = "DYNAMIC" -> TreeDynamicParityCalls(t)
                    [] linkage = "STATIC" -> TreeStaticCalls(t)
                    [] linkage = "UNKNOWN" -> TreeUnknownCalls)
              \o << Returned("check_no_empty_folders",
                             tree_check_no_empty_folders(t, PackageDir)) >>)

ContentChecks ==
    {"check_lib_architecture", "check_exports_of_dlls", "check_uwp_bit_of_dlls",
     "check_dll_architecture"}

\* the tree breaks no rule once its include directory holds a header, and
\* the content of its binaries breaks none
OtherwiseCompliant ==
    /\ LayoutViolations(WithHeader(tree), tree_linkage) = <<>>
    /\ \A c \in ContentChecks : ~Occurs(tree_report, c)

\* C11 as stated: a full run over an otherwise compliant tree whose include
\* directory exists but is empty reports exactly one violation, the one of
\* the empty include folder, and the counter is 1.
C11_OneViolation ==
    (TreeRunComplete /\ IncludeIsEmpty(tree) /\ OtherwiseCompliant) =>
        /\ tree_error_count = 1
        /\ tree_report = <<"check_for_files_in_include_directory">>

\* C11 amended: a full run over an otherwise compliant tree whose include
\* directory exists but is empty reports exactly two violations, the empty
\* include folder first and the empty directory last; the counter is 2 and
\* the package is rejected.
C11_TwoViolations ==
    (TreeRunComplete /\ IncludeIsEmpty(tree) /\ OtherwiseCompliant) =>
        /\ tree_error_count = 2
        /\ tree_report = <<"check_for_files_in_include_directory",
                           "check_no_empty_folders">>
        /\ tree_pc = "rejected"

C11_Witness ==
    /\ tree_pc = "rejected"
    /\ IncludeIsEmpty(tree)
    /\ OtherwiseCompliant
    /\ tree_linkage = "STATIC"
    /\ TreeReleaseLibs(tree) = {}
    /\ tree_error_count = 2

\* the files of the tree with extension .exe
Exes(t) == {e \in t : ~e.is_directory /\ e.extension = ".exe"}

\* check_for_exes was called
ExesChecked == tree_pc \in {"linkage", "final", "accepted", "rejected", "halted"}

\* C12 as stated: the executable check returns a violation whenever a file
\* with extension .exe exists anywhere under the package tree, and passes
\* only when the whole tree has none.
C12_ExeAnywhere ==
    ExesChecked =>
        (Occurs(tree_report, "check_for_exes") <=> Exes(tree) # {})

\* C12 amended: the executable check returns a violation exactly when a file
\* with extension .exe exists, at any depth, under bin or under debug/bin;
\* an executable elsewhere in the tree is not looked at.
C12_ExeUnderBin ==
    ExesChecked =>
        (Occurs(tree_report, "check_for_exes")
            <=> \E e \in Exes(tree) :
                    \/ IsBelow(e.path, <<"bin">>)
                    \/ IsBelow(e.path, <<"debug", "bin">>))

C12_Witness ==
    /\ ExesChecked
    /\ Exes(tree) = {File(<<"debug", "bin", "sub", "a.exe">>, ".exe"),
                     File(<<"tools", "a.exe">>, ".exe")}
    /\ Times(tree_report, "check_for_exes") = 1

\* the switch on the linkage type was gone through
LinkageChecked == tree_pc \in {"final", "accepted", "rejected"}

LibCountsDiffer(t) == Cardinality(TreeDebugLibs(t)) # Cardinality(TreeReleaseLibs(t))
DllCountsDiffer(t) == Cardinality(TreeDebugDlls(t)) # Cardinality(TreeReleaseDlls(t))

LibParityViolations == Times(tree_report, "check_matching_debug_and_release_binaries:libs")
DllParityViolations == Times(tree_report, "check_matching_debug_and_release_binaries:dlls")

\* C16 as stated: only the dominant binary kind is counted: a dynamic package
\* gets a parity violation exactly when its .dll counts under debug/bin and
\* bin differ, a static package exactly when its .lib counts under debug/lib
\* and lib differ, and a mismatch yields exactly one parity violation.
C16_DominantKindParity ==
    LinkageChecked =>
        /\ tree_linkage = "DYNAMIC" =>
              LibParityViolations + DllParityViolations
                  = (IF DllCountsDiffer(tree) THEN 1 ELSE 0)
        /\ tree_linkage = "STATIC" =>
              LibParityViolations + DllParityViolations
                  = (IF LibCountsDiffer(tree) THEN 1 ELSE 0)

\* C16 amended: the .lib counts under debug/lib and lib are compared for
\* every linkage type and give one parity violation exactly when they
\* differ; the .dll counts under debug/bin and bin are compared in addition
\* for a dynamic package only and give one more exactly when they differ.
C16_ParityOfEachKind ==
    LinkageChecked =>
        /\ LibParityViolations = (IF LibCountsDiffer(tree) THEN 1 ELSE 0)
        /\ DllParityViolations
              = (IF tree_linkage = "DYNAMIC" /\ DllCountsDiffer(tree) THEN 1 ELSE 0)

C16_Witness ==
    /\ TreeRunComplete
    /\ tree_linkage = "DYNAMIC"
    /\ Cardinality(TreeReleaseLibs(tree)) = 2
    /\ Cardinality(TreeDebugLibs(tree)) = 1
    /\ ~DllCountsDiffer(tree)
    /\ LibParityViolations = 1
    /\ DllParityViolations = 0

(***************************************************************************)
(* Properties of the architecture checks (under SpecBin)                   *)
(***************************************************************************)
\* the files the loop has gone through
Examined == 1 .. (file_i - 1)

\* the header of file i was read and gave the loop one machine type
OneMachineType(i) ==
    /\ arch_files[i].read
    /\ arch_kind = "lib" => Len(arch_files[i].machine_types) = 1

\* the machine type of file i, when it has one
MachineTypeOf(i) ==
    IF arch_kind = "lib" THEN arch_files[i].machine_types[1]
    ELSE arch_files[i].machine_type

ActualOf(i) == get_actual_architecture(MachineTypeOf(i))

Mismatching(i) == ActualOf(i) # expected_architecture

\* C13 as stated: the architecture check stops the run only when the reading
\* of a header fails; whatever a header that was read contains, a library
\* with zero or several machine types included, the check goes on and returns.
C13_OnlyReadFailureHalts ==
    arch_pc = "halted" => ~arch_files[file_i].read

\* C13 amended: the architecture check stops the run only at a file whose
\* header could not be read or, for a library, whose header yields zero or
\* several machine types; it never goes past such a file, and over a list
\* without one it goes through every file and returns Pass or Violation.
C13_HaltsOnUnreadOrNotOneMachineType ==
    /\ arch_pc = "halted" =>
          /\ file_i \in 1 .. Len(arch_files)
          /\ ~OneMachineType(file_i)
    /\ arch_pc \in {"loop", "returned"} => \A i \in Examined : OneMachineType(i)
    /\ arch_pc = "loop" => ENABLED NextBin
    /\ arch_pc = "returned" =>
          /\ file_i = Len(arch_files) + 1
          /\ arch_status \in LintStatus

C13_Witness ==
    /\ arch_pc = "halted"
    /\ arch_kind = "lib"
    /\ file_i = 2
    /\ arch_files[1].machine_types = <<I386>>
    /\ arch_files[2].read
    /\ arch_files[2].machine_types = <<AMD64, I386>>

\* C14: the mismatch list holds, in input order, every file gone through
\* whose classified architecture differs from the expected one, each with
\* that architecture, and no other file; the check returns after the last
\* file only, with a violation exactly when some file of the list
\* mismatches, and with a pass on the empty list.
C14_EveryMismatchCollected ==
    arch_pc \in {"loop", "returned", "halted"} =>
        LET v == binaries_with_invalid_architecture
        IN  /\ \A k \in 1 .. Len(v) :
                  /\ v[k].file \in Examined
                  /\ Mismatching(v[k].file)
                  /\ v[k].actual_arch = ActualOf(v[k].file)
            /\ \A k \in 1 .. (Len(v) - 1) : v[k].file < v[k + 1].file
            /\ \A i \in Examined : Mismatching(i) => \E k \in 1 .. Len(v) : v[k].file = i
            /\ arch_pc = "returned" =>
                  /\ file_i = Len(arch_files) + 1
                  /\ arch_status = ERROR_DETECTED
                        <=> \E i \in 1 .. Len(arch_files) : Mismatching(i)
                  /\ arch_files = <<>> => arch_status = SUCCESS

C14_Witness ==
    /\ arch_pc = "returned"
    /\ arch_kind = "lib"
    /\ expected_architecture = STR_x86
    /\ Len(arch_files) = 3
    /\ binaries_with_invalid_architecture =
          << [file |-> 1, actual_arch |-> STR_x64],
             [file |-> 3, actual_arch |-> STR_MachineTypeCode \o <<"0">>] >>
    /\ arch_status = ERROR_DETECTED

(***************************************************************************)
(* Properties of the reports of check_crt_linkage_of_libs (under SpecCrt)  *)
(***************************************************************************)
\* the diagnostics of the report with a message, and for a build type
Reports(msg, build_type) ==
    SelectSeq(crt_report, LAMBDA d : d.msg = msg /\ d.build_type = build_type)

\* C15: the check returns a violation exactly when some library of the list
\* is in a group other than the one of the expected build type; the
\* undetected and the ambiguous groups are reported exactly when non-empty,
\* a build type's group exactly when non-empty and not the expected one, each
\* once with its libraries; a list whose libraries all have the expected
\* build type, the empty list included, passes with no report.
C15_ViolationIffUnexpectedGroup ==
    crt_pc = "returned" =>
        /\ output_status = ERROR_DETECTED
              <=> \E k \in 1 .. Len(libs) :
                      GroupsHolding(libs[k]) # {expected_build_type}
        /\ Reports("could_not_detect", "") =
              (IF libs_with_no_crts # <<>>
               THEN <<[msg |-> "could_not_detect", build_type |-> "",
                       files |-> libs_with_no_crts]>>
               ELSE <<>>)
        /\ Reports("multiple_crt_linkages", "") =
              (IF libs_with_multiple_crts # <<>>
               THEN <<[msg |-> "multiple_crt_linkages", build_type |-> "",
                       files |-> libs_with_multiple_crts]>>
               ELSE <<>>)
        /\ \A g \in BuildTypes :
              Reports("expected_other_crt", g) =
                  (IF GroupVector(g) # <<>> /\ g # expected_build_type
                   THEN <<[msg |-> "expected_other_crt", build_type |-> g,
                           files |-> GroupVector(g)]>>
                   ELSE <<>>)
        /\ (\A k \in 1 .. Len(libs) : GroupsHolding(libs[k]) = {expected_build_type})
              => (output_status = SUCCESS /\ crt_report = <<>>)

C15_Witness ==
    /\ crt_pc = "returned"
    /\ expected_build_type = "RELEASE_STATIC"
    /\ libs_with_release_static_crt = <<1>>
    /\ libs_with_release_dynamic_crt = <<2>>
    /\ crt_report = <<[msg |-> "expected_other_crt", build_type |-> "RELEASE_DYNAMIC",
                       files |-> <<2>>]>>
    /\ output_status = ERROR_DETECTED

====
